---- MODULE Spec2Model ----
(***************************************************************************)
(* Model of the epee stream manager (kafkaStreamImpl: Consume,             *)
(* CancelConsumer, Close) and of MustGetZookeeperClient.                   *)
(*                                                                         *)
(* Every goroutine that calls into the registry is a process of Procs.     *)
(* A call is cut into steps at the points where other goroutines can      *)
(* observe or change shared state: the unlocked read of ks.closing, each   *)
(* ConsumePartition attempt, each acquisition of the mutex, each wait for  *)
(* a forwarding loop.  Topic and partition are passed to the transport     *)
(* unchanged and are left out; the transport's answers are inputs.         *)
(*                                                                         *)
(* Consume reads ks.closing without the mutex while Close writes it under  *)
(* the mutex.  The read is a step of its own, so a read that races with    *)
(* the write returns the old or the new value, whichever step comes first. *)
(*                                                                         *)
(* StreamConsumer (NewStreamConsumer, Start, Close and the forwarding      *)
(* loop) is modelled from its contract: Close signals the loop, waits for  *)
(* it to stop and closes the output queue unless it is closed already.     *)
(***************************************************************************)
EXTENDS Integers, FiniteSets, Sequences, TLC

\* ---------------------------------------------------------------- bounds
NumProcs == 2
MaxSessions == 1
MaxRetries == 1
MaxBudget == 6
MaxFailures == 6
MaxPaths == 2

\* ------------------------------------------------------- program constants
OffsetOldest == -2

Procs == 1..NumProcs
\* Sessions the registry can create, and one StreamConsumer that a caller built
\* itself with NewStreamConsumer and never registered.
Sessions == 1..MaxSessions
Foreign == MaxSessions + 1
AllSessions == Sessions \cup {Foreign}
NoSession == 0
NoProc == 0

\* Offsets a caller passes to Consume.
Offsets == {0, 5}

\* Answers of sarama.Consumer.ConsumePartition.
Answers == {"ok", "ErrUnknownTopicOrPartition", "ErrOther"}

VARIABLES
    closing,        \* ks.closing
    consumers,      \* keys of ks.consumers
    mutex,          \* holder of ks.Mutex, NoProc when free
    transportClosed,\* ks.consumer.Close() has been called
    nextHandle,     \* number of partition consumers the transport has opened
    nextSession,    \* number of StreamConsumers the registry has allocated
    sess,           \* per session: the StreamConsumer
    pc,             \* per process: position in its current call
    loc,            \* per process: locals of the current call
    last,           \* the return of the step just taken, NoRet if it was none
    closeBegun,     \* some Close() call has taken the mutex
    zk,             \* state of MustGetZookeeperClient
    store,          \* mockZookeeperClient.paths: stored key -> stored bytes
    written,        \* per key: the value of its latest Set that returned nil
    res             \* the last call of a coordination-client function, its result

vars == <<closing, consumers, mutex, transportClosed, nextHandle, nextSession,
          sess, pc, loc, closeBegun, zk, store, written, res>>

\* ------------------------------------------------------------ StreamConsumer
\* A StreamConsumer that has not been constructed yet.
NoSess == [made |-> FALSE, handle |-> 0, started |-> FALSE, running |-> FALSE,
           stop |-> FALSE, closed |-> FALSE,
           queueCloses |-> 0, cancelCloses |-> 0, drained |-> FALSE]

NewStreamConsumer(h) == [NoSess EXCEPT !.made = TRUE, !.handle = h]

\* sc.Start(): the forwarding loop begins.
SessStart(s) == [s EXCEPT !.started = TRUE, !.running = TRUE]

\* First half of sc.Close(): signal the forwarding loop to stop.
SessSignal(s) ==
    [s EXCEPT !.stop = TRUE]

\* Second half of sc.Close(), once the loop has stopped: the output queue is
\* closed unless an earlier Close already closed it.
SessFinish(s) ==
    IF s.closed THEN s
    ELSE [s EXCEPT !.closed = TRUE, !.queueCloses = @ + 1]

\* ------------------------------------------------------------------- locals
NoLoc == [arg |-> 0, offset |-> 0, sent |-> 0, calls |-> 0, answer |-> "none",
          handle |-> 0, sc |-> NoSession, todo |-> {}, afterClose |-> FALSE,
          before |-> {}]

NoRet == [op |-> "none", sc |-> NoSession, err |-> "nil", answer |-> "none",
          calls |-> 0, afterClose |-> FALSE, found |-> FALSE, before |-> {}]

\* newMockZookeeperClient(): zk.paths = make(map[string][]byte)
NoStore == << >>

\* No coordination-client function has been called.
NoRes == [op |-> "none"]

\* MustGetZookeeperClient has not been called.
ZkOff == [pc |-> "off", retry |-> 0, attempts |-> 0, failures |-> 0]

Init ==
    /\ closing = FALSE
    /\ consumers = {}
    /\ mutex = NoProc
    /\ transportClosed = FALSE
    /\ nextHandle = 0
    /\ nextSession = 0
    /\ sess = [s \in AllSessions |->
                 IF s = Foreign THEN NewStreamConsumer(0) ELSE NoSess]
    /\ pc = [p \in Procs |-> "idle"]
    /\ loc = [p \in Procs |-> NoLoc]
    /\ last = NoRet
    /\ closeBegun = FALSE
    /\ zk = ZkOff
    /\ store = NoStore
    /\ written = NoStore
    /\ res = NoRes

\* What a call leaves behind when it returns to its caller.
Return(p, r) ==
    /\ pc' = [pc EXCEPT ![p] = "idle"]
    /\ loc' = [loc EXCEPT ![p] = NoLoc]
    /\ last' = r

\* A step inside a call: it moves on to label, and nothing returns.
Goto(p, label) ==
    /\ pc' = [pc EXCEPT ![p] = label]
    /\ last' = NoRet

\* ------------------------------------------------------------------ Consume
\* Mutant: the offset is passed on as given.
ResolveOffsetLiteral(offset) == offset

\* offset == 0 is the sentinel for sarama.OffsetOldest.
ResolveOffset(offset) == IF offset = 0 THEN OffsetOldest ELSE offset

\* A goroutine calls ks.Consume(topic, partition, off).
ConsumeCall(p, off) ==
    /\ pc[p] = "idle"
    /\ Goto(p, "consEnter")
    /\ loc' = [loc EXCEPT ![p] = [NoLoc EXCEPT !.arg = off, !.offset = off,
                                               !.afterClose = closeBegun]]
    /\ UNCHANGED <<closing, consumers, mutex, transportClosed, nextHandle,
                   nextSession, sess, closeBegun, zk, store, written, res>>

\* Mutant: the closing check is missing.
RejectsNever(cl) == FALSE

\* The condition of "if ks.closing", on the value cl read from ks.closing.
Rejects(cl) == cl

\* if ks.closing { return nil, ErrStreamClosing }; the read takes no lock.
\* Otherwise the offset is resolved and the retry loop is entered.
ConsumeCheck(p) ==
    /\ pc[p] = "consEnter"
    /\ IF Rejects(closing)
       THEN Return(p, [NoRet EXCEPT !.op = "Consume", !.err = "ErrStreamClosing",
                                    !.afterClose = loc[p].afterClose])
       ELSE /\ Goto(p, "consAttempt")
            /\ loc' = [loc EXCEPT ![p].offset = ResolveOffset(loc[p].offset)]
    /\ UNCHANGED <<closing, consumers, mutex, transportClosed, nextHandle,
                   nextSession, sess, closeBegun, zk, store, written, res>>

\* Mutant: ErrUnknownTopicOrPartition is returned like any other error.
LoopStepNoRetry(a) == IF a # "ok" THEN "return" ELSE "break"

\* Mutant: only ErrUnknownTopicOrPartition is looked at; any other answer
\* leaves the loop as if it were a success.
LoopStepIgnoreError(a) ==
    IF a = "ErrUnknownTopicOrPartition" THEN "continue" ELSE "break"

\* What one pass of the for loop does with the transport's answer a:
\* ErrUnknownTopicOrPartition: wait 5 s and continue; any other error: return
\* nil, err; success: the next pass finds partitionConsumer != nil and breaks.
LoopStep(a) ==
    IF a = "ErrUnknownTopicOrPartition" THEN "continue"
    ELSE IF a # "ok" THEN "return"
    ELSE "break"

\* One pass of the for loop: ConsumePartition(topic, partition, offset) with
\* the transport's answer a.
ConsumeAttempt(p, a) ==
    /\ pc[p] = "consAttempt"
    /\ a = "ok" => nextHandle < MaxSessions
    /\ a = "ErrUnknownTopicOrPartition" => loc[p].calls < MaxRetries
    /\ LET l == [loc[p] EXCEPT !.sent = loc[p].offset, !.calls = @ + 1,
                               !.answer = a]
           h == IF a = "ok" THEN nextHandle + 1 ELSE 0
       IN /\ nextHandle' = IF a = "ok" THEN h ELSE nextHandle
          /\ CASE LoopStep(a) = "continue" ->
                    /\ loc' = [loc EXCEPT ![p] = l]
                    /\ UNCHANGED pc
                    /\ last' = NoRet
               [] LoopStep(a) = "return" ->
                    Return(p, [NoRet EXCEPT !.op = "Consume", !.err = a,
                                            !.answer = a, !.calls = l.calls,
                                            !.afterClose = l.afterClose])
               [] LoopStep(a) = "break" ->
                    /\ loc' = [loc EXCEPT ![p] = [l EXCEPT !.handle = h]]
                    /\ Goto(p, "consRegister")
    /\ UNCHANGED <<closing, consumers, mutex, transportClosed, nextSession,
                   sess, closeBegun, zk, store, written, res>>

\* ch := make(chan Message, 0); consumer := NewStreamConsumer(ch, pc);
\* ks.Lock(); ks.consumers[consumer] = true; ks.Unlock()
ConsumeRegister(p) ==
    /\ pc[p] = "consRegister"
    /\ mutex = NoProc
    /\ LET s == nextSession + 1
       IN /\ nextSession' = s
          /\ sess' = [sess EXCEPT ![s] = NewStreamConsumer(loc[p].handle)]
          /\ consumers' = consumers \cup {s}
          /\ loc' = [loc EXCEPT ![p] = [NoLoc EXCEPT
                                          !.sc = s, !.handle = loc[p].handle,
                                          !.afterClose = loc[p].afterClose]]
    /\ Goto(p, "consStart")
    /\ UNCHANGED <<closing, mutex, transportClosed, nextHandle,
                   closeBegun, zk, store, written, res>>

\* consumer.Start(); return consumer, nil
ConsumeStart(p) ==
    /\ pc[p] = "consStart"
    /\ LET s == loc[p].sc
       IN /\ sess' = [sess EXCEPT ![s] = SessStart(sess[s])]
          /\ Return(p, [NoRet EXCEPT !.op = "Consume", !.sc = s,
                                     !.answer = "ok",
                                     !.afterClose = loc[p].afterClose])
    /\ UNCHANGED <<closing, consumers, mutex, transportClosed, nextHandle,
                   nextSession, closeBegun, zk, store, written, res>>

\* ----------------------------------------------------------- CancelConsumer
\* Sessions a caller can hold a pointer to: those Consume has returned, and
\* the one it built itself.
Held == {s \in AllSessions : sess[s].started \/ s = Foreign}

\* A goroutine calls ks.CancelConsumer(s).
CancelCall(p, s) ==
    /\ pc[p] = "idle"
    /\ s \in Held
    /\ Goto(p, "cancelLock")
    /\ loc' = [loc EXCEPT ![p] = [NoLoc EXCEPT !.sc = s]]
    /\ UNCHANGED <<closing, consumers, mutex, transportClosed, nextHandle,
                   nextSession, sess, closeBegun, zk, store, written, res>>

\* _, ok := ks.consumers[sc]
StillAlive(s) == s \in consumers

\* ks.Lock(); _, ok := ks.consumers[sc].  If ok, sc.Close() is called: it
\* signals the forwarding loop and then waits for it.  If not, return nil
\* (and the deferred ks.Unlock()).
CancelCheck(p) ==
    /\ pc[p] = "cancelLock"
    /\ mutex = NoProc
    /\ LET s == loc[p].sc
       IN IF StillAlive(s)
          THEN /\ mutex' = p
               /\ sess' = [sess EXCEPT ![s] = [SessSignal(sess[s]) EXCEPT
                                                 !.cancelCloses = @ + 1]]
               /\ Goto(p, "cancelWait")
               /\ UNCHANGED loc
          ELSE /\ Return(p, [NoRet EXCEPT !.op = "CancelConsumer", !.sc = s])
               /\ UNCHANGED <<mutex, sess>>
    /\ UNCHANGED <<closing, consumers, transportClosed, nextHandle,
                   nextSession, closeBegun, zk, store, written, res>>

\* Mutant: the mutex stays with the goroutine that returns.
UnlockNever(p) == p

\* The deferred ks.Unlock() of the goroutine p: the mutex is free again.
Unlock(p) == NoProc

\* Mutant: the session is closed but stays in the map.
DeleteNothing(cs, s) == cs

\* delete(ks.consumers, sc)
Delete(cs, s) == cs \ {s}

\* sc.Close() returns once the loop has stopped; delete(ks.consumers, sc);
\* return nil, and the deferred ks.Unlock().
CancelFinish(p) ==
    /\ pc[p] = "cancelWait"
    /\ LET s == loc[p].sc
       IN /\ ~sess[s].running
          /\ sess' = [sess EXCEPT ![s] = SessFinish(sess[s])]
          /\ consumers' = Delete(consumers, s)
          /\ Return(p, [NoRet EXCEPT !.op = "CancelConsumer", !.sc = s,
                                     !.found = TRUE])
    /\ mutex' = Unlock(p)
    /\ UNCHANGED <<closing, transportClosed, nextHandle, nextSession,
                   closeBegun, zk, store, written, res>>

\* -------------------------------------------------------------------- Close
\* A goroutine calls ks.Close().
CloseCall(p) ==
    /\ pc[p] = "idle"
    /\ Goto(p, "closeLock")
    /\ loc' = [loc EXCEPT ![p] = [NoLoc EXCEPT !.before = consumers]]
    /\ UNCHANGED <<closing, consumers, mutex, transportClosed, nextHandle,
                   nextSession, sess, closeBegun, zk, store, written, res>>

\* ks.Lock(): from here on this Close() is running its body.
CloseAcquire(p) ==
    /\ pc[p] = "closeLock"
    /\ mutex = NoProc
    /\ mutex' = p
    /\ closeBegun' = TRUE
    /\ Goto(p, "closeSet")
    /\ UNCHANGED <<closing, consumers, transportClosed, nextHandle,
                   nextSession, sess, loc, zk, store, written, res>>

\* Mutant: Close() closes the transport without visiting the sessions.
RangeNone(cs) == {}

\* The sessions that "for c := range ks.consumers" visits.
Range(cs) == cs

\* ks.closing = true; and the range loop is set up.
CloseSetClosing(p) ==
    /\ pc[p] = "closeSet"
    /\ closing' = TRUE
    /\ loc' = [loc EXCEPT ![p].todo = Range(consumers)]
    /\ Goto(p, "closeLoop")
    /\ UNCHANGED <<consumers, mutex, transportClosed, nextHandle,
                   nextSession, sess, closeBegun, zk, store, written, res>>

\* c.Close() for the next c of the range: signal its loop, then wait.
CloseNext(p, c) ==
    /\ pc[p] = "closeLoop"
    /\ c \in loc[p].todo
    /\ sess' = [sess EXCEPT ![c] = SessSignal(sess[c])]
    /\ loc' = [loc EXCEPT ![p].sc = c]
    /\ Goto(p, "closeWait")
    /\ UNCHANGED <<closing, consumers, mutex, transportClosed, nextHandle,
                   nextSession, closeBegun, zk, store, written, res>>

\* c.Close() returns once the loop of c has stopped.
CloseWait(p) ==
    /\ pc[p] = "closeWait"
    /\ LET c == loc[p].sc
       IN /\ ~sess[c].running
          /\ sess' = [sess EXCEPT ![c] = SessFinish(sess[c])]
          /\ loc' = [loc EXCEPT ![p].todo = @ \ {c}, ![p].sc = NoSession]
    /\ Goto(p, "closeLoop")
    /\ UNCHANGED <<closing, consumers, mutex, transportClosed, nextHandle,
                   nextSession, closeBegun, zk, store, written, res>>

\* The range is exhausted: ks.consumer.Close(); Close returns, and the
\* deferred ks.Unlock().
CloseTransport(p) ==
    /\ pc[p] = "closeLoop"
    /\ loc[p].todo = {}
    /\ transportClosed' = TRUE
    /\ mutex' = Unlock(p)
    /\ Return(p, [NoRet EXCEPT !.op = "Close", !.before = loc[p].before])
    /\ sess' = [s \in AllSessions |->
                 IF s \in loc[p].before THEN [sess[s] EXCEPT !.drained = TRUE]
                 ELSE sess[s]]
    /\ UNCHANGED <<closing, consumers, nextHandle, nextSession, closeBegun, zk, store, written, res>>

\* ---------------------------------------------------------- forwarding loop
\* The forwarding loop of session s exits: it has seen the stop signal, or its
\* partition consumer is exhausted.
LoopExit(s) ==
    /\ sess[s].running
    /\ sess' = [sess EXCEPT ![s].running = FALSE]
    /\ last' = NoRet
    /\ UNCHANGED <<closing, consumers, mutex, transportClosed, nextHandle,
                   nextSession, pc, loc, closeBegun, zk, store, written, res>>

\* ------------------------------------------------------------ specification
Next ==
    \/ \E p \in Procs, off \in Offsets : ConsumeCall(p, off)
    \/ \E p \in Procs : ConsumeCheck(p)
    \/ \E p \in Procs, a \in Answers : ConsumeAttempt(p, a)
    \/ \E p \in Procs : ConsumeRegister(p)
    \/ \E p \in Procs : ConsumeStart(p)
    \/ \E p \in Procs, s \in AllSessions : CancelCall(p, s)
    \/ \E p \in Procs : CancelCheck(p)
    \/ \E p \in Procs : CancelFinish(p)
    \/ \E p \in Procs : CloseCall(p)
    \/ \E p \in Procs : CloseAcquire(p)
    \/ \E p \in Procs : CloseSetClosing(p)
    \/ \E p \in Procs, c \in AllSessions : CloseNext(p, c)
    \/ \E p \in Procs : CloseWait(p)
    \/ \E p \in Procs : CloseTransport(p)
    \/ \E s \in AllSessions : LoopExit(s)

Spec == Init /\ [][Next]_vars

\* --------------------------------------------------- MustGetZookeeperClient
streamVars == <<closing, consumers, mutex, transportClosed, nextHandle,
                nextSession, sess, pc, loc, last, closeBegun>>

\* Retry budgets a caller passes: RetryForever (0), negative and positive ones.
Budgets == (0 - MaxBudget)..MaxBudget

\* MustGetZookeeperClient(servers, retry) is called: attempts := 0.
ZkCall(retry) ==
    /\ zk.pc = "off"
    /\ zk' = [ZkOff EXCEPT !.pc = "try", !.retry = retry]
    /\ UNCHANGED <<streamVars, store, written, res>>

\* if retry > 0 { attempts += 1 }
CountAttempt(retry, attempts) == IF retry > 0 THEN attempts + 1 ELSE attempts

\* Mutant: the budget is compared with >=, one attempt too early.
EscalatesEarly(retry, attempts) == attempts >= retry

\* err != nil && attempts > retry
Escalates(retry, attempts) == attempts > retry

\* One pass of the loop: NewZookeeperClient(servers) fails (failed) or not;
\* the counter; then panic(err), the 3 s wait, or break.
ZkTry(failed) ==
    /\ zk.pc = "try"
    /\ failed => zk.failures < MaxFailures
    /\ LET a == CountAttempt(zk.retry, zk.attempts)
       IN zk' = [zk EXCEPT !.attempts = a,
                           !.failures = IF failed THEN @ + 1 ELSE @,
                           !.pc = IF failed /\ Escalates(zk.retry, a) THEN "panic"
                                  ELSE IF failed THEN "wait"
                                  ELSE "done"]
    /\ UNCHANGED <<streamVars, store, written, res>>

\* <-time.After(3 * time.Second), and the loop goes round.
ZkWait ==
    /\ zk.pc = "wait"
    /\ zk' = [zk EXCEPT !.pc = "try"]
    /\ UNCHANGED <<streamVars, store, written, res>>

NextConnect ==
    \/ \E retry \in Budgets : ZkCall(retry)
    \/ \E failed \in BOOLEAN : ZkTry(failed)
    \/ ZkWait

SpecConnect == Init /\ [][NextConnect]_vars

\* -------------------------------------------------------------- Go strings
\* A string is the sequence of its tokens: the separator "/" and names, which
\* hold no "/" (and no "." or ".." element).
Slash == "/"
BrokersIds == <<Slash, "brokers", Slash, "ids">>

\* Keys a coordination store is given: two broker entries, one nested
\* deeper, one under another directory.
Keys == {BrokersIds \o <<Slash, "0">>,
         BrokersIds \o <<Slash, "1">>,
         BrokersIds \o <<Slash, "0", Slash, "x">>,
         <<Slash, "brokers", Slash, "topics", Slash, "0">>}

\* The sequences of length at most n over S.
SeqsUpTo(S, n) == UNION {[1..k -> S] : k \in 0..n}

\* --------------------------------------------------------- Go dynamic values
\* What an interface{} holds after decoding: a string, a float64, or nil.
GoString(s) == [t |-> "string", s |-> s, n |-> 0]
GoFloat(n) == [t |-> "float64", s |-> "", n |-> n]
GoNil == [t |-> "nil", s |-> "", n |-> 0]

\* fmt's %s verb.
FmtS(v) == IF v.t = "string" THEN v.s ELSE "%!s(" \o v.t \o ")"

\* fmt's %0.0f verb; the float64 values of the model are whole numbers.
FmtF0(v) == IF v.t = "float64" THEN ToString(v.n) ELSE "%!f(" \o v.t \o ")"

\* fmt.Sprintf("%s:%0.0f", data["host"], data["port"]): the text before and
\* the text after the colon.
Sprintf(data) == [host |-> FmtS(data.host), port |-> FmtF0(data.port)]

\* ---------------------------------------------------- findRegisteredBrokers
\* Mutant: an entry whose Get fails is skipped and the rest is returned.
RECURSIVE BrokerLoopSkip(_, _, _, _)
BrokerLoopSkip(paths, get, i, fullPaths) ==
    IF i > Len(paths) THEN [addrs |-> fullPaths, err |-> "nil"]
    ELSE LET a == get[paths[i]]
         IN IF a.err # "nil"
            THEN BrokerLoopSkip(paths, get, i + 1, fullPaths)
            ELSE BrokerLoopSkip(paths, get, i + 1,
                                Append(fullPaths, Sprintf(a.data)))

\* for _, p := range paths: zk.Get(p, data) answers get[p]; an error returns
\* []string{}, err; otherwise the formatted address is appended.
RECURSIVE BrokerLoop(_, _, _, _)
BrokerLoop(paths, get, i, fullPaths) ==
    IF i > Len(paths) THEN [addrs |-> fullPaths, err |-> "nil"]
    ELSE LET a == get[paths[i]]
         IN IF a.err # "nil"
            THEN [addrs |-> << >>, err |-> a.err]
            ELSE BrokerLoop(paths, get, i + 1,
                            Append(fullPaths, Sprintf(a.data)))

\* findRegisteredBrokers(zk), for a client whose List("/brokers/ids") answers
\* list and whose Get(p, data) answers get[p].
FindRegisteredBrokers(list, get) ==
    IF list.err # "nil" THEN [addrs |-> << >>, err |-> list.err]
    ELSE BrokerLoop(list.paths, get, 1, << >>)

\* What a ZookeeperClient can answer to List: an error, or paths.
ListAnswers ==
    {[err |-> "ErrList", paths |-> << >>]}
        \cup {[err |-> "nil", paths |-> s] : s \in SeqsUpTo(Keys, MaxPaths)}

\* The maps Get can leave in data.
DataMaps == {[host |-> GoString("a"), port |-> GoFloat(9092)],
             [host |-> GoString("b"), port |-> GoFloat(9093)],
             [host |-> GoNil, port |-> GoNil]}

\* What a ZookeeperClient can answer to Get.
GetAnswers ==
    {[err |-> "ErrNotFound", data |-> [host |-> GoNil, port |-> GoNil]]}
        \cup {[err |-> "nil", data |-> d] : d \in DataMaps}

\* findRegisteredBrokers is called with a client that answers list and get.
BrokersCall(list, get) ==
    /\ res = NoRes
    /\ res' = [op |-> "findRegisteredBrokers", list |-> list, get |-> get,
               out |-> FindRegisteredBrokers(list, get)]
    /\ UNCHANGED <<streamVars, zk, store, written>>

NextBrokers ==
    \E list \in ListAnswers, get \in [Keys -> GetAnswers] :
        BrokersCall(list, get)

SpecBrokers == Init /\ [][NextBrokers]_vars

\* ----------------------------------------------------------------- fairness
\* The steps of the goroutine p that need no lock to be taken: what is left of
\* a CancelConsumer or Close() call once it holds the mutex.
Holding(p) ==
    \/ CancelFinish(p)
    \/ CloseSetClosing(p)
    \/ \E c \in AllSessions : CloseNext(p, c)
    \/ CloseWait(p)
    \/ CloseTransport(p)

\* ks.Lock() of the goroutine p in CancelConsumer or Close().
Locking(p) == CancelCheck(p) \/ CloseAcquire(p)

\* Fair scheduling: a goroutine that can run does run, a forwarding loop that
\* is running comes to its exit (a session's Close terminates), and a goroutine
\* waiting in ks.Lock() gets the mutex if it is free again and again
\* (sync.Mutex hands the lock to a waiter that has starved).
SpecFair ==
    /\ Spec
    /\ \A p \in Procs : WF_vars(Holding(p)) /\ SF_vars(Locking(p))
    /\ \A s \in AllSessions : WF_vars(LoopExit(s))

\* ------------------------------------------------------------------- path
\* strings.LastIndex(s, "/"), counted from 1; 0 when there is none.
LastSlash(s) ==
    LET at == {i \in 1..Len(s) : s[i] = Slash}
    IN IF at = {} THEN 0 ELSE CHOOSE i \in at : \A j \in at : j <= i

\* The names of s, in order, without the separators.
RECURSIVE Names(_)
Names(s) ==
    IF s = << >> THEN << >>
    ELSE IF Head(s) = Slash THEN Names(Tail(s))
    ELSE <<Head(s)>> \o Names(Tail(s))

\* The names ns joined by single separators.
RECURSIVE Join(_)
Join(ns) ==
    IF ns = << >> THEN << >>
    ELSE IF Len(ns) = 1 THEN ns
    ELSE <<Head(ns), Slash>> \o Join(Tail(ns))

\* path.Clean: "" becomes ".", repeated separators become one, a trailing
\* separator is dropped unless the path is the root.
Clean(s) ==
    IF s = << >> THEN <<".">>
    ELSE IF Head(s) = Slash THEN <<Slash>> \o Join(Names(s))
    ELSE Join(Names(s))

\* path.Dir: all but the last element of the path, cleaned.
Dir(s) == Clean(SubSeq(s, 1, LastSlash(s)))

\* ---------------------------------------------------------- encoding/json
\* Values a caller hands to Set: a broker object, a string, and a channel,
\* which json.Marshal rejects.
BrokerValue(h, p) == [t |-> "map", s |-> h, n |-> p]
SetValues == {BrokerValue("a", 9092), BrokerValue("b", 9093),
              [t |-> "string", s |-> "x", n |-> 0],
              [t |-> "chan", s |-> "", n |-> 0]}

\* json.Marshal(i): the JSON text {"host":s,"port":n} or "s", or an error.
Marshal(v) ==
    IF v.t = "chan" THEN [err |-> "UnsupportedTypeError", bytes |-> [j |-> "none", s |-> "", n |-> 0]]
    ELSE [err |-> "nil",
          bytes |-> [j |-> IF v.t = "map" THEN "object" ELSE "string",
                     s |-> v.s, n |-> v.n]]

\* What a caller hands to Get: a map[string]interface{} itself (as
\* findRegisteredBrokers does), a pointer to one, or a pointer to an
\* interface{}.
Targets == {"map", "*map", "*interface"}

\* What Get leaves in its target when it has decoded nothing.
Undecoded == [t |-> "none", host |-> GoNil, port |-> GoNil, str |-> GoNil]

\* json.Unmarshal(bytes, i): a target that is no pointer is refused; an object
\* decodes to a map whose numbers are float64; a string decodes into an
\* interface{} only.
Unmarshal(bytes, target) ==
    IF target = "map" THEN [err |-> "InvalidUnmarshalError", val |-> Undecoded]
    ELSE IF bytes.j = "object"
    THEN [err |-> "nil",
          val |-> [Undecoded EXCEPT !.t = "map", !.host = GoString(bytes.s),
                                    !.port = GoFloat(bytes.n)]]
    ELSE IF target = "*interface"
    THEN [err |-> "nil",
          val |-> [Undecoded EXCEPT !.t = "string", !.str = GoString(bytes.s)]]
    ELSE [err |-> "UnmarshalTypeError", val |-> Undecoded]

\* ------------------------------------------------------ mockZookeeperClient
\* Prefixes a caller lists.
Prefixes == {<< >>, <<Slash>>, BrokersIds, BrokersIds \o <<Slash>>,
             BrokersIds \o <<Slash, Slash>>,
             BrokersIds \o <<Slash, "0">>, BrokersIds \o <<Slash, "0", Slash>>,
             <<Slash, "brokers">>, <<Slash, "brokers", Slash, "topics">>}

\* The orders in which a range over a map with the keys S can run.
Orders(S) ==
    {o \in [1..Cardinality(S) -> S] : \A i, j \in DOMAIN o : o[i] = o[j] => i = j}

\* Mutant: a trailing separator is left on the prefix.
StripNothing(prefix) == prefix

\* if prefix[len(prefix)-1] == '/' { prefix = prefix[0 : len(prefix)-1] }
StripSlash(prefix) ==
    IF prefix[Len(prefix)] = Slash THEN SubSeq(prefix, 1, Len(prefix) - 1)
    ELSE prefix

\* for k := range zk.paths, in the order o: k is kept if path.Dir(k) == prefix.
RECURSIVE ListLoop(_, _, _)
ListLoop(o, prefix, paths) ==
    IF o = << >> THEN paths
    ELSE ListLoop(Tail(o), prefix,
                  IF prefix = Dir(Head(o)) THEN Append(paths, Head(o)) ELSE paths)

\* zk.List(prefix) on the store st, whose range runs in the order o.
MockList(st, prefix, o) ==
    IF prefix = << >> THEN [err |-> "nil", paths |-> << >>]
    ELSE [err |-> "nil", paths |-> ListLoop(o, StripSlash(prefix), << >>)]

\* zk.Get(path, i) on the store st.
MockGet(st, path, target) ==
    IF path \notin DOMAIN st THEN [err |-> "ErrNotFound", val |-> Undecoded]
    ELSE Unmarshal(st[path], target)

\* st with st[path] = bytes.
Put(st, path, bytes) ==
    [k \in DOMAIN st \cup {path} |-> IF k = path THEN bytes ELSE st[k]]

\* Mutant: the bytes are stored whatever json.Marshal returned.
MockSetAlways(st, path, v) ==
    [err |-> Marshal(v).err, store |-> Put(st, path, Marshal(v).bytes)]

\* zk.Set(path, i) on the store st: the error returned and the store after.
MockSet(st, path, v) ==
    LET m == Marshal(v)
    IN [err |-> m.err,
        store |-> IF m.err = "nil" THEN Put(st, path, m.bytes) ELSE st]

\* A caller calls zk.Set(k, v).
SetCall(k, v) ==
    LET r == MockSet(store, k, v)
    IN /\ store' = r.store
       /\ written' = IF r.err = "nil" THEN Put(written, k, v) ELSE written
       /\ res' = [op |-> "Set", key |-> k, target |-> "none", before |-> store,
                  err |-> r.err, val |-> Undecoded, paths |-> << >>,
                  addrs |-> << >>]
       /\ UNCHANGED <<streamVars, zk>>

\* A caller calls zk.Get(k, target).
GetCall(k, target) ==
    LET r == MockGet(store, k, target)
    IN /\ res' = [op |-> "Get", key |-> k, target |-> target, before |-> store,
                  err |-> r.err, val |-> r.val, paths |-> << >>,
                  addrs |-> << >>]
       /\ UNCHANGED <<streamVars, zk, store, written>>

\* A caller calls zk.List(prefix); the range over zk.paths runs in the order o.
ListCall(prefix, o) ==
    LET r == MockList(store, prefix, o)
    IN /\ res' = [op |-> "List", key |-> prefix, target |-> "none",
                  before |-> store, err |-> r.err, val |-> Undecoded,
                  paths |-> r.paths, addrs |-> << >>]
       /\ UNCHANGED <<streamVars, zk, store, written>>

\* data := make(map[string]interface{}); err := zk.Get(p, data): what the
\* mock client answers for p, and the map afterwards.
MockGetData(st, p) ==
    LET r == MockGet(st, p, "map")
    IN [err |-> r.err, data |-> [host |-> r.val.host, port |-> r.val.port]]

\* A caller calls findRegisteredBrokers(zk) with the mock client.
MockBrokersCall(o) ==
    LET r == FindRegisteredBrokers(MockList(store, BrokersIds, o),
                                   [k \in Keys |-> MockGetData(store, k)])
    IN /\ res' = [op |-> "findRegisteredBrokers", key |-> BrokersIds,
                  target |-> "map", before |-> store, err |-> r.err,
                  val |-> Undecoded, paths |-> << >>, addrs |-> r.addrs]
       /\ UNCHANGED <<streamVars, zk, store, written>>

NextMock ==
    \/ \E k \in Keys, v \in SetValues : SetCall(k, v)
    \/ \E k \in Keys, target \in Targets : GetCall(k, target)
    \/ \E prefix \in Prefixes, o \in Orders(DOMAIN store) : ListCall(prefix, o)
    \/ \E o \in Orders(DOMAIN store) : MockBrokersCall(o)

SpecMock == Init /\ [][NextMock]_vars

\* ------------------------------------------------------------------- claims
ConsumePcs == {"consEnter", "consAttempt", "consRegister", "consStart"}

\* C1: a Consume call issued after some Close() call has begun (has taken the
\* mutex and is running, or has returned) returns ErrStreamClosing and no
\* session.
C1_ClosingVisibility ==
    (last.op = "Consume" /\ last.afterClose)
        => (last.err = "ErrStreamClosing" /\ last.sc = NoSession)

\* C2: once closing is true, no step adds a session to consumers.
C2_NoGrowthAfterClosing == [][closing => consumers' \subseteq consumers]_vars

\* C3: once a Close() call has returned, every session that was registered
\* when that call was issued is closed and its output queue has been closed
\* exactly once, in every later state too.
C3_DrainBeforeRelease ==
    \A s \in AllSessions :
        sess[s].drained => (sess[s].closed /\ sess[s].queueCloses = 1)

\* C3 witness: Close() has returned for a session it closed, and a later
\* CancelConsumer found that session still registered and closed it again.
C3_Witness ==
    /\ last.op = "CancelConsumer"
    /\ last.found
    /\ sess[last.sc].drained
    /\ sess[last.sc].queueCloses = 1

\* C4: whenever the transport consumer has been closed, every session the
\* registry created is closed.
C4_NoSessionOutlivesTransport ==
    transportClosed => \A s \in Sessions : sess[s].made => sess[s].closed

\* C5: CancelConsumer always returns nil; on a session that is not registered
\* it changes neither the registry nor any session; on a registered one it
\* closes and removes it; CancelConsumer calls close one session at most once.
C5_IdempotentCancel ==
    /\ [](/\ last.op = "CancelConsumer" =>
               /\ last.err = "nil"
               /\ last.sc \notin consumers
               /\ last.found => sess[last.sc].closed
          /\ \A s \in AllSessions : sess[s].cancelCloses <= 1)
    /\ [][\A p \in Procs :
            (pc[p] = "cancelLock" /\ loc[p].sc \notin consumers
                                  /\ pc'[p] # "cancelLock")
                => /\ consumers' = consumers
                   /\ sess' = sess
                   /\ last'.op = "CancelConsumer"
                   /\ ~last'.found]_vars

\* C5 witness: a second CancelConsumer on a session that a first one closed
\* has returned, having found nothing to do.
C5_Witness ==
    /\ last.op = "CancelConsumer"
    /\ ~last.found
    /\ last.sc \in Sessions
    /\ sess[last.sc].cancelCloses = 1

\* C6: Consume never returns ErrUnknownTopicOrPartition; a call stays in its
\* retry loop exactly while the answers are that error; after a successful
\* attempt it registers, starts and returns a session wrapping that handle.
C6_RetryUnknown ==
    /\ last.op = "Consume" => last.err # "ErrUnknownTopicOrPartition"
    /\ \A p \in Procs :
        /\ pc[p] = "consAttempt" =>
             loc[p].answer \in {"none", "ErrUnknownTopicOrPartition"}
        /\ pc[p] = "consRegister" => (loc[p].answer = "ok" /\ loc[p].handle # 0)
        /\ pc[p] = "consStart" =>
             /\ loc[p].sc \in consumers
             /\ sess[loc[p].sc].handle = loc[p].handle
    /\ (last.op = "Consume" /\ last.sc # NoSession) =>
          /\ last.err = "nil"
          /\ last.sc \in consumers
          /\ sess[last.sc].started

\* C6 witness: a call has used every retry the model allows and is still in
\* the loop, about to try again.
C6_Witness ==
    \E p \in Procs :
        /\ pc[p] = "consAttempt"
        /\ loc[p].calls = MaxRetries
        /\ loc[p].answer = "ErrUnknownTopicOrPartition"

\* C7: an answer other than success and ErrUnknownTopicOrPartition makes
\* Consume return (nil, that error) in the same step, with no later attempt,
\* no session, and the registry unchanged.
C7_OtherErrors ==
    /\ [](/\ (last.op = "Consume" /\ last.answer = "ErrOther") =>
                (last.err = "ErrOther" /\ last.sc = NoSession)
          /\ \A p \in Procs : pc[p] \in ConsumePcs => loc[p].answer # "ErrOther")
    /\ [][(last'.op = "Consume" /\ last'.err = "ErrOther") =>
            /\ consumers' = consumers
            /\ sess' = sess
            /\ nextSession' = nextSession]_vars

\* C7 witness: Consume has returned such an error, after as many retries as
\* the model allows, while a session was registered.
C7_Witness ==
    /\ last.op = "Consume"
    /\ last.err = "ErrOther"
    /\ last.calls = MaxRetries + 1
    /\ consumers # {}

\* C8: a Consume call that finds closing true returns (nil, ErrStreamClosing)
\* in that step: no ConsumePartition call, no session, registry unchanged.
C8_ClosingRejects ==
    [][\A p \in Procs :
         (pc[p] = "consEnter" /\ closing /\ pc'[p] # "consEnter")
            => /\ pc'[p] = "idle"
               /\ last' = [NoRet EXCEPT !.op = "Consume",
                                        !.err = "ErrStreamClosing",
                                        !.afterClose = loc[p].afterClose]
               /\ consumers' = consumers
               /\ sess' = sess
               /\ nextHandle' = nextHandle
               /\ nextSession' = nextSession]_vars

\* C8 witness: a Consume call has been rejected with ErrStreamClosing.
C8_Witness ==
    /\ closing
    /\ last.op = "Consume"
    /\ last.err = "ErrStreamClosing"

\* C9: every ConsumePartition call of Consume(topic, partition, 0) is made at
\* sarama.OffsetOldest, and of Consume with a non-zero offset at that offset.
C9_OffsetSentinel ==
    \A p \in Procs :
        (pc[p] \in {"consAttempt", "consRegister"} /\ loc[p].answer # "none")
            => loc[p].sent = (IF loc[p].arg = 0 THEN OffsetOldest ELSE loc[p].arg)

\* C9 witness: Consume(topic, partition, 0) has retried as often as the
\* model allows, and its latest call was made at OffsetOldest.
C9_Witness ==
    \E p \in Procs :
        /\ pc[p] = "consRegister"
        /\ loc[p].arg = 0
        /\ loc[p].calls = MaxRetries + 1
        /\ loc[p].sent = OffsetOldest

\* C10: with retry <= 0, MustGetZookeeperClient never panics.
C10_NonPositiveRetriesForever == zk.retry <= 0 => zk.pc # "panic"


\* C11: with a budget retry = N > 0 the counter counts every attempt; a failed
\* attempt is followed by a wait while the counter is at most N and by the
\* panic at the first one where it exceeds N, which is failure N + 1; a
\* successful attempt ends the call without a panic.
C11_FiniteBudget ==
    (zk.retry > 0 /\ zk.pc # "off") =>
        /\ zk.attempts = zk.failures + (IF zk.pc = "done" THEN 1 ELSE 0)
        /\ zk.pc = "wait" => zk.attempts <= zk.retry
        /\ zk.pc = "panic" => (zk.attempts = zk.retry + 1
                               /\ zk.failures = zk.retry + 1)

\* C11 witness: with a budget of 2 the call has panicked, on its third failure.
C11_Witness ==
    /\ zk.retry = 2
    /\ zk.pc = "panic"
    /\ zk.failures = 3


\* The positions of paths whose Get fails.
FailingAt(paths, get) == {i \in 1..Len(paths) : get[paths[i]].err # "nil"}

\* C12: if List fails, findRegisteredBrokers returns no address and that
\* error; if Get fails for a listed entry, it returns no address and the
\* error of the first such entry; otherwise it returns a nil error.
C12_AllOrNothing ==
    res.op = "findRegisteredBrokers" =>
        LET bad == FailingAt(res.list.paths, res.get)
        IN /\ res.out.err # "nil" => res.out.addrs = << >>
           /\ res.list.err # "nil" => res.out.err = res.list.err
           /\ (res.list.err = "nil" /\ bad # {}) =>
                \E i \in bad : /\ \A j \in bad : i <= j
                               /\ res.out.err = res.get[res.list.paths[i]].err
           /\ (res.list.err = "nil" /\ bad = {}) => res.out.err = "nil"

\* C12 witness: the first listed entry was fetched, the second one failed,
\* and nothing was returned but the error.
C12_Witness ==
    /\ res.op = "findRegisteredBrokers"
    /\ res.list.err = "nil"
    /\ FailingAt(res.list.paths, res.get) = {2}
    /\ res.out = [addrs |-> << >>, err |-> "ErrNotFound"]


\* The directory that holds the key k: k without its last name and the
\* separator before it.
Parent(k) == SubSeq(k, 1, LastSlash(k) - 1)

\* The address "host:port" of a stored broker object.
Address(doc) == [host |-> doc.s, port |-> ToString(doc.n)]

\* The keys of st directly under /brokers/ids.
Registered(st) == {k \in DOMAIN st : Parent(k) = BrokersIds}

\* C13: when every entry stored directly under /brokers/ids is a broker
\* object, findRegisteredBrokers returns no error and exactly one "host:port"
\* address for each of those entries, and nothing else; with no entry there it
\* returns an empty list and no error.
C13_ExactlyTheBrokers ==
    (/\ res.op = "findRegisteredBrokers"
     /\ \A k \in Registered(store) : store[k].j = "object") =>
        /\ res.err = "nil"
        /\ Len(res.addrs) = Cardinality(Registered(store))
        /\ {res.addrs[i] : i \in DOMAIN res.addrs} =
               {Address(store[k]) : k \in Registered(store)}

\* C14: Get(k) fails with ErrNotFound exactly when no Set(k) has returned nil;
\* otherwise its result is the decoding, into the target it was given, of the
\* value of the latest Set(k) that returned nil, and an interface{} target
\* always receives that value. A Set on one key leaves what Get returns for
\* every other key as it was.
C14_RoundTrip ==
    /\ res.op = "Get" =>
        /\ res.err = "ErrNotFound" <=> res.key \notin DOMAIN written
        /\ res.key \in DOMAIN written =>
            /\ [err |-> res.err, val |-> res.val] =
                   Unmarshal(Marshal(written[res.key]).bytes, res.target)
            /\ res.target = "*interface" =>
                   (res.err = "nil" /\ res.val.t = written[res.key].t)
            /\ (res.err = "nil" /\ res.val.t = "map") =>
                   /\ res.val.host = GoString(written[res.key].s)
                   /\ res.val.port = GoFloat(written[res.key].n)
    /\ res.op = "Set" =>
        \A k \in Keys \ {res.key} : \A target \in Targets :
            MockGet(store, k, target) = MockGet(res.before, k, target)

C14_Witness ==
    /\ res.op = "Get" /\ res.target = "*map" /\ res.err = "nil"
    /\ res.val.host = GoString("b") /\ res.val.port = GoFloat(9093)
    /\ Cardinality(DOMAIN written) >= 2

\* C15: List("") returns an empty list and no error; for a non-empty prefix p
\* without a trailing separator, List(p) and List(p + "/") both return exactly
\* the stored keys whose parent directory is p; List leaves the store as it
\* was.
C15_List ==
    res.op = "List" =>
        /\ res.err = "nil"
        /\ store = res.before
        /\ res.key = << >> => res.paths = << >>
        /\ \A p \in Prefixes :
            (/\ p # << >> /\ p[Len(p)] # Slash
             /\ res.key \in {p, p \o <<Slash>>}) =>
                /\ {res.paths[i] : i \in DOMAIN res.paths} =
                       {k \in DOMAIN store : Parent(k) = p}
                /\ Len(res.paths) = Cardinality({k \in DOMAIN store : Parent(k) = p})

C15_Witness ==
    /\ res.op = "List" /\ res.key = BrokersIds \o <<Slash>>
    /\ Len(res.paths) = 2 /\ Cardinality(DOMAIN store) = 4


\* C16: in every state after a Close() call has returned, no session's
\* forwarding loop is running.
C16_NoLoopAfterShutdown ==
    transportClosed => \A s \in Sessions : ~sess[s].running

\* C17: no state has one call about to read closing (Consume at its closing
\* check, which takes no lock) while another call holds the mutex and is
\* about to write closing (Close between Lock and the assignment).
C17_LockedAccess ==
    \A p, q \in Procs :
        (p # q /\ pc[p] = "consEnter") => pc[q] # "closeSet"

\* C19: Close is invoked on a session the registry created only after Start
\* has been invoked on it.
C19_StartBeforeClose ==
    \A s \in Sessions : sess[s].stop => sess[s].started

\* C20: whenever the mutex is free, no session in consumers has been closed.
C20_RegisteredAreLive ==
    mutex = NoProc => \A s \in consumers : ~sess[s].closed


InCancelOrClose ==
    {"cancelLock", "cancelWait", "closeLock", "closeSet", "closeLoop", "closeWait"}

\* C18: under fair scheduling every CancelConsumer call and every Close() call
\* in progress eventually returns.
C18_CallsReturn ==
    \A p \in Procs : (pc[p] \in InCancelOrClose) ~> (pc[p] = "idle")

\* C18 witness: one goroutine waits for the mutex in Close() while another
\* holds it in CancelConsumer, waiting for a forwarding loop that still runs.
C18_Witness ==
    \E p, q \in Procs :
        /\ pc[p] = "closeLock" /\ pc[q] = "cancelWait" /\ mutex = q
        /\ sess[loc[q].sc].running

====
